---- MODULE Spec2Model ----
(***************************************************************************)
(* DevDocs: the discovery-and-crawl orchestration of src/app/page.tsx      *)
(* (handleSubmit, handleCrawlSelected over the React state of Home) and    *)
(* the /api/discover route handler POST of src/unnamed/part_000.           *)
(*                                                                         *)
(* JavaScript runs each handler to its next await without interruption, so *)
(* every action below is one such synchronous block: the code from the     *)
(* call (or from the settlement of the awaited promise) up to the next     *)
(* await or the end of the handler, finally-block included.                *)
(***************************************************************************)
EXTENDS Integers, Sequences, FiniteSets, TLC

\* Bound of the model: how many handler invocations (handleSubmit and
\* handleCrawlSelected together) one behaviour starts.
MaxCalls == 3

----------------------------------------------------------------------------
(* JavaScript values.  A string that the code inspects character by        *)
(* character (String(depth), parseInt) is a sequence of one-character      *)
(* strings; an optional property is a record field that may be missing.    *)

Has(rec, field) == field \in DOMAIN rec

Digits == <<"0", "1", "2", "3", "4", "5", "6", "7", "8", "9">>

IsDigit(c) == \E d \in 1..10 : Digits[d] = c

DigitValue(c) == (CHOOSE d \in 1..10 : Digits[d] = c) - 1

RECURSIVE NatToString(_)
\* Number.prototype.toString of a non-negative integer: its decimal digits.
NatToString(n) ==
    IF n < 10 THEN <<Digits[n + 1]>>
    ELSE NatToString(n \div 10) \o <<Digits[(n % 10) + 1]>>

\* A JSON number is [t |-> "num", neg, int, frac]: sign, integer part and the
\* digits after the decimal point (<<>> for an integer).
Num(n) == [t |-> "num", neg |-> n < 0, int |-> IF n < 0 THEN -n ELSE n, frac |-> <<>>]

Frac(n, digits) == [t |-> "num", neg |-> FALSE, int |-> n, frac |-> digits]

Str(chars) == [t |-> "str", v |-> chars]

Null == [t |-> "null"]

Bool(b) == [t |-> "bool", v |-> b]

NoResponse == [kind |-> "none"]

NaN == [nan |-> TRUE, v |-> 0]

Int32(n) == [nan |-> FALSE, v |-> n]

----------------------------------------------------------------------------
(* The /api/discover route: src/unnamed/part_000.                          *)

DefaultDepth == 3

MinDepth == 1

MaxDepth == 5

\* String(depth) for the values JSON.parse can produce.
String(value) ==
    CASE value.t = "str"  -> value.v
      [] value.t = "null" -> <<"n", "u", "l", "l">>
      [] value.t = "bool" -> IF value.v THEN <<"t", "r", "u", "e">>
                                        ELSE <<"f", "a", "l", "s", "e">>
      [] value.t = "num"  ->
            (IF value.neg /\ (value.int # 0 \/ value.frac # <<>>) THEN <<"-">> ELSE <<>>)
            \o NatToString(value.int)
            \o (IF value.frac = <<>> THEN <<>> ELSE <<".">> \o value.frac)

IsWhiteSpace(c) == c \in {" ", "\t", "\n"}

RECURSIVE TrimStart(_)
TrimStart(chars) ==
    IF chars # <<>> /\ IsWhiteSpace(Head(chars)) THEN TrimStart(Tail(chars)) ELSE chars

RECURSIVE DigitPrefix(_)
\* The longest prefix of decimal digits.
DigitPrefix(chars) ==
    IF chars # <<>> /\ IsDigit(Head(chars))
    THEN <<Head(chars)>> \o DigitPrefix(Tail(chars))
    ELSE <<>>

RECURSIVE DigitsValue(_, _)
DigitsValue(digits, acc) ==
    IF digits = <<>> THEN acc
    ELSE DigitsValue(Tail(digits), 10 * acc + DigitValue(Head(digits)))

\* parseInt(string) with no radix, on decimal input: leading white space is
\* skipped, one sign is read, then the longest run of digits; NaN when there
\* is no digit.  What follows the digits is ignored.
parseInt(chars) ==
    LET trimmed  == TrimStart(chars)
        negative == trimmed # <<>> /\ Head(trimmed) = "-"
        signed   == trimmed # <<>> /\ Head(trimmed) \in {"-", "+"}
        rest     == IF signed THEN Tail(trimmed) ELSE trimmed
        digits   == DigitPrefix(rest)
        value    == DigitsValue(digits, 0)
    IN  IF digits = <<>> THEN NaN
        ELSE Int32(IF negative THEN -value ELSE value)

\* x || fallback for a number x: NaN and 0 are falsy.
OrElse(x, fallback) == IF x.nan \/ x.v = 0 THEN fallback ELSE x.v

Min(a, b) == IF a < b THEN a ELSE b

Max(a, b) == IF a > b THEN a ELSE b

\* const { url, depth = 3 } = body: the default applies to a missing depth only.
DepthOf(body) == IF Has(body, "depth") THEN body.depth ELSE Num(DefaultDepth)

\* validatedDepth with Math.min and Math.max left out: parseInt(String(depth)) || 3
validatedDepthUnclamped(body) == OrElse(parseInt(String(DepthOf(body))), DefaultDepth)

\* Math.min(5, Math.max(1, parseInt(String(depth)) || 3))
validatedDepth(body) ==
    Min(MaxDepth, Max(MinDepth, OrElse(parseInt(String(DepthOf(body))), DefaultDepth)))

\* !url
UrlMissing(body) == ~Has(body, "url") \/ body.url = ""

RouteError(error) ==
    [status |-> 500,
     body |-> [error |-> error.message, details |-> "stack", errorType |-> error.name,
               pages |-> <<>>]]

SyntaxError == [name |-> "SyntaxError", message |-> "Unexpected token < in JSON"]

FetchFailed == [name |-> "TypeError", message |-> "fetch failed"]

\* `No pages discovered` or `Found ${n} pages`, when the backend gave no message.
RouteMessage(data) ==
    IF Has(data, "message") /\ data.message # <<>> THEN data.message
    ELSE IF Has(data, "pages") /\ Len(data.pages) = 0 THEN <<"No pages discovered">>
    ELSE <<"Found ">>
         \o (IF Has(data, "pages") THEN NatToString(Len(data.pages)) ELSE <<"undefined">>)
         \o <<" pages">>

\* Lines 5-30: up to the await of the fetch to the backend.  `sent` is the
\* request sent to the backend, if one is; otherwise `response` is returned.
RouteReceive(request) ==
    IF ~request.parse THEN [sent |-> <<>>, response |-> RouteError(SyntaxError)]
    ELSE IF UrlMissing(request.data)
    THEN [sent |-> <<>>,
          response |-> [status |-> 400, body |-> [error |-> "URL is required"]]]
    ELSE [sent |-> <<[url |-> request.data.url, depth |-> validatedDepth(request.data)]>>,
          response |-> NoResponse]

\* Lines 32-56 and the catch of lines 58-92: the response returned once the
\* backend has answered `backend`.
RouteAnswer(backend) ==
    CASE backend.kind = "throw" -> RouteError(FetchFailed)
      [] backend.kind = "http" /\ ~backend.json.parse -> RouteError(SyntaxError)
      [] backend.kind = "http" /\ backend.json.parse /\ ~backend.ok ->
            [status |-> backend.status,
             body |-> [error |->
                IF Has(backend.json.data, "error") /\ backend.json.data.error # ""
                THEN backend.json.data.error
                ELSE "Failed to discover pages"]]
      [] OTHER ->
            [status |-> 200,
             body |-> [pages |-> IF Has(backend.json.data, "pages")
                                 THEN backend.json.data.pages ELSE <<>>,
                       message |-> RouteMessage(backend.json.data)]]

\* POST(request) against a backend that answers `backend`.
POST(request, backend) ==
    LET received == RouteReceive(request)
    IN  IF received.sent = <<>> THEN received
        ELSE [sent |-> received.sent, response |-> RouteAnswer(backend)]

----------------------------------------------------------------------------
(* The page/link status model of src/app/page.tsx.                         *)

\* A DiscoveredPage is [url, status] or [url, status, internalLinks]; a link
\* is [href] or [href, status].
Page(u, st, links) == [url |-> u, status |-> st, internalLinks |-> links]

Leaf(u, st) == [url |-> u, status |-> st]

Link(h, st) == [href |-> h, status |-> st]

Bare(h) == [href |-> h]

\* LinkStatus with link.status left out: ... ? newStatus : 'pending'
LinkStatusDefaulted(link, selectedUrls, newStatus) ==
    IF link.href \in selectedUrls THEN newStatus ELSE "pending"

\* selectedUrls.includes(x) ? newStatus : link.status || 'pending'
LinkStatus(link, selectedUrls, newStatus) ==
    IF link.href \in selectedUrls THEN newStatus
    ELSE IF Has(link, "status") /\ link.status # "" THEN link.status
    ELSE "pending"

\* PageStatus with page.status left out: ... ? newStatus : 'not-started'
PageStatusReset(page, selectedUrls, newStatus) ==
    IF page.url \in selectedUrls THEN newStatus ELSE "not-started"

\* selectedUrls.includes(page.url) ? newStatus : page.status
PageStatus(page, selectedUrls, newStatus) ==
    IF page.url \in selectedUrls THEN newStatus ELSE page.status

\* markSelected with the internalLinks line left out of the updater.
markSelectedPagesOnly(pages, selectedUrls, newStatus) ==
    [k \in DOMAIN pages |->
        [pages[k] EXCEPT !.status = PageStatus(pages[k], selectedUrls, newStatus)]]

\* The updater given to setDiscoveredPages at lines 160, 214 and 249:
\* pages.map(page => ({...page, status, internalLinks: page.internalLinks?.map(...)}))
markSelected(pages, selectedUrls, newStatus) ==
    [k \in DOMAIN pages |->
        LET page == pages[k]
            status == PageStatus(page, selectedUrls, newStatus)
        IN  IF Has(page, "internalLinks")
            THEN Page(page.url, status,
                      [n \in DOMAIN page.internalLinks |->
                          Link(page.internalLinks[n].href,
                               LinkStatus(page.internalLinks[n], selectedUrls, newStatus))])
            ELSE Leaf(page.url, status)]

\* filterByUrls with the test left out: every page of the model.
filterByUrlsAll(pages, selectedUrls) == pages

RECURSIVE filterByUrls(_, _)
\* discoveredPages.filter(page => selectedUrls.includes(page.url)), in order.
filterByUrls(pages, selectedUrls) ==
    IF pages = <<>> THEN <<>>
    ELSE (IF Head(pages).url \in selectedUrls THEN <<Head(pages)>> ELSE <<>>)
         \o filterByUrls(Tail(pages), selectedUrls)

\* errorPages with the status test left out: every page counts as failed.
errorPagesAll(pages) == pages

RECURSIVE errorPages(_)
\* pages.filter(page => page.status === 'error')
errorPages(pages) ==
    IF pages = <<>> THEN <<>>
    ELSE (IF Head(pages).status = "error" THEN <<Head(pages)>> ELSE <<>>)
         \o errorPages(Tail(pages))

----------------------------------------------------------------------------------------------------------------------------------------
(* The state of Home (src/app/page.tsx, lines 16-27), the handler          *)
(* invocations, and what the collaborators have been handed.               *)

VARIABLES
    url,               \* useState('')
    isProcessing,      \* useState(false)
    discoveredPages,   \* useState<DiscoveredPage[]>([])
    isCrawling,        \* useState(false)
    markdown,          \* useState(''), a sequence of characters
    stats,             \* useState({subdomainsParsed, pagesCrawled, dataExtracted, errorsEncountered})
    saveCalls,         \* every saveMarkdown(key, content) call so far
    crawls,            \* the handleCrawlSelected invocations, in call order
    submits,           \* the handleSubmit invocations, in call order
    routePc,           \* the POST handler of /api/discover: where it is,
    routeRequest,      \*   the request it was given,
    routeSent,         \*   the requests it has sent to the backend,
    routeResponse      \*   and the response it returned

\* An invocation is a record of its arguments, the values its closure holds,
\* its position (pc), and what it has done so far: the requests it sent, the
\* toast({...}) calls it made (toasts) and its steps in order (trace); for
\* handleSubmit, how many pages its setDiscoveredPages([]) removed.

vars == <<url, isProcessing, discoveredPages, isCrawling, markdown, stats,
          saveCalls, crawls, submits, routePc, routeRequest, routeSent, routeResponse>>

routeVars == <<routePc, routeRequest, routeSent, routeResponse>>

Toast(title, description, variant) ==
    [title |-> title, description |-> description, variant |-> variant]

\* formatBytes of @/lib/crawl-service: a count below 1024 in bytes, otherwise
\* in hundredths of a KB.
formatBytes(bytes) ==
    IF bytes < 1024 THEN [value |-> bytes * 100, unit |-> "Bytes"]
    ELSE [value |-> (bytes * 100) \div 1024, unit |-> "KB"]

\* validateUrl of @/lib/crawl-service: an absolute http(s) URL.
validateUrl(candidate) == candidate \in {"https://example.com", "http://docs.example.com"}

----------------------------------------------------------------------------
(* What the environment can do: the calls the user makes and the answers   *)
(* the backend, the network and the storage give.                          *)

Urls == {"a", "b"}

Selections == SUBSET Urls

\* What the fetch of /api/crawl and the reading of its body can give.
CrawlResponses ==
    { [kind |-> "throw"],
      [kind |-> "http", ok |-> FALSE, json |-> [parse |-> TRUE, data |-> [error |-> "Crawl failed"]]],
      [kind |-> "http", ok |-> TRUE,  json |-> [parse |-> TRUE, data |-> [markdown |-> <<"h", "i">>]]],
      [kind |-> "http", ok |-> TRUE,
       json |-> [parse |-> TRUE, data |-> [markdown |-> <<"h", "i">>, error |-> ""]]],
      [kind |-> "http", ok |-> TRUE,
       json |-> [parse |-> TRUE, data |-> [markdown |-> <<"h", "i">>, error |-> "boom"]]] }

Calls == Len(crawls) + Len(submits)

----------------------------------------------------------------------------
(* handleCrawlSelected, lines 153-267.                                     *)

\* CrawlSelected with the setDiscoveredPages call of lines 160-169 left out.
CrawlSelectedUnmarked(selectedUrls) ==
    /\ Len(crawls) + Len(submits) < MaxCalls
    /\ isCrawling' = TRUE
    /\ crawls' = Append(crawls,
            [pc |-> "awaitFetch",
             selectedUrls |-> selectedUrls,
             selectedPages |-> filterByUrls(discoveredPages, selectedUrls),
             url |-> url,
             markdown |-> <<>>,
             outcome |-> "",
             toasts |-> <<>>,
             trace |-> <<"pending", "request">>])
    /\ UNCHANGED <<url, isProcessing, discoveredPages, markdown, stats, saveCalls, submits>>
    /\ UNCHANGED <<routePc, routeRequest, routeSent, routeResponse>>

\* Lines 153-181: up to the await of fetch.  `discoveredPages` and `url` are
\* the values of the render whose handler is called.
CrawlSelected(selectedUrls) ==
    /\ Calls < MaxCalls
    /\ isCrawling' = TRUE
    /\ discoveredPages' = markSelected(discoveredPages, selectedUrls, "pending")
    /\ crawls' = Append(crawls,
            [pc |-> "awaitFetch",
             selectedUrls |-> selectedUrls,
             selectedPages |-> filterByUrls(discoveredPages, selectedUrls),
             url |-> url,
             markdown |-> <<>>,
             outcome |-> "",
             toasts |-> <<>>,
             trace |-> <<"pending", "request">>])
    /\ UNCHANGED <<url, isProcessing, markdown, stats, saveCalls, submits>>
    /\ UNCHANGED routeVars

\* CrawlCatch with the finally block of lines 264-266 left out.
CrawlCatchNoFinally(i, message, outcome) ==
    /\ stats' = [stats EXCEPT !.errorsEncountered = @ + 1]
    /\ discoveredPages' = markSelected(discoveredPages, crawls[i].selectedUrls, "error")
    /\ crawls' = [crawls EXCEPT ![i].pc = "done", ![i].outcome = outcome,
                                ![i].toasts = Append(@, Toast("Error", message, "destructive")),
                                ![i].trace = @ \o <<"settled", "error">>]
    /\ UNCHANGED <<url, isProcessing, isCrawling, markdown, saveCalls, submits>>

\* Lines 242-266: the catch block and the finally block.
CrawlCatch(i, message, outcome) ==
    /\ stats' = [stats EXCEPT !.errorsEncountered = @ + 1]
    /\ discoveredPages' = markSelected(discoveredPages, crawls[i].selectedUrls, "error")
    /\ isCrawling' = FALSE
    /\ crawls' = [crawls EXCEPT ![i].pc = "done", ![i].outcome = outcome,
                                ![i].toasts = Append(@, Toast("Error", message, "destructive")),
                                ![i].trace = @ \o <<"settled", "error">>]
    /\ UNCHANGED <<url, isProcessing, markdown, saveCalls, submits>>

\* errorData.error || 'Failed to crawl pages'
CrawlErrorMessage(data) ==
    IF Has(data, "error") /\ data.error # "" THEN data.error ELSE "Failed to crawl pages"

\* result.error of line 198 left unread.
ResultErrorIgnored(data) == FALSE

\* if (result.error), line 198
ResultError(data) == Has(data, "error") /\ data.error # ""

\* The fetch of line 175 settles and the body is read (line 184 or 188): lines
\* 183-203 up to the await of saveMarkdown, or the catch.  The handler touches
\* no state between its await of fetch and its await of response.json(), so
\* the two are one step.
CrawlSettles(i, response) ==
    /\ i \in DOMAIN crawls
    /\ crawls[i].pc = "awaitFetch"
    /\ LET data == response.json.data
       IN  CASE response.kind = "throw" ->
                    CrawlCatch(i, FetchFailed.message, "transport")
             [] response.kind = "http" /\ ~response.json.parse ->
                    CrawlCatch(i, SyntaxError.message, "malformed")
             [] response.kind = "http" /\ response.json.parse /\ ~response.ok ->
                    CrawlCatch(i, CrawlErrorMessage(data), "non2xx")
             [] response.kind = "http" /\ response.json.parse /\ response.ok
                  /\ ResultError(data) ->
                    CrawlCatch(i, data.error, "errorField")
             [] OTHER ->
                    LET result == IF Has(data, "markdown") THEN data.markdown ELSE <<>>
                    IN  /\ saveCalls' = saveCalls \cup {[key |-> crawls[i].url, content |-> result]}
                        /\ crawls' = [crawls EXCEPT ![i].pc = "awaitSave",
                                                    ![i].markdown = result,
                                                    ![i].trace = @ \o <<"settled", "save">>]
                        /\ UNCHANGED <<url, isProcessing, discoveredPages, isCrawling, markdown,
                                       stats, submits>>
    /\ UNCHANGED routeVars

\* saveMarkdown of line 203 settles: lines 204-241 and the finally block.
CrawlSaveSettles(i, saved) ==
    /\ i \in DOMAIN crawls
    /\ crawls[i].pc = "awaitSave"
    /\ IF saved
       THEN /\ markdown' = crawls[i].markdown
            /\ stats' = [stats EXCEPT !.pagesCrawled = Len(crawls[i].selectedPages),
                                      !.dataExtracted = formatBytes(Len(crawls[i].markdown))]
            /\ discoveredPages' = markSelected(discoveredPages, crawls[i].selectedUrls, "crawled")
            /\ crawls' = [crawls EXCEPT
                  ![i].pc = "done", ![i].outcome = "saved",
                  ![i].toasts = @ \o
                     << Toast("Content Saved",
                              "Crawled content has been saved and can be loaded again later",
                              "default"),
                        Toast("Crawling Complete", "All pages have been crawled and processed",
                              "default") >>,
                  ![i].trace = @ \o <<"crawled">>]
       ELSE /\ crawls' = [crawls EXCEPT
                  ![i].pc = "done", ![i].outcome = "saveFailed",
                  ![i].toasts = @ \o
                     << Toast("Error", "Failed to save content for later use", "destructive"),
                        Toast("Crawling Complete", "All pages have been crawled and processed",
                              "default") >>]
            /\ UNCHANGED <<markdown, stats, discoveredPages>>
    /\ isCrawling' = FALSE
    /\ UNCHANGED <<url, isProcessing, saveCalls, submits>>
    /\ UNCHANGED routeVars

----------------------------------------------------------------------------
(* handleSubmit, lines 29-151.                                             *)

Seeds == {"", "https://example.com"}

\* The depth the URL form hands to handleSubmit.
Depths == {Num(7)}

DiscoveryResults ==
    { <<>>,
      << Page("a", "not-started", <<Bare("b"), Link("c", "not-started")>>),
         Leaf("b", "not-started") >>,
      << Leaf("c", "error") >> }

\* What the backend's /api/discover can answer to the route.
DiscoverBackends ==
    { [kind |-> "throw"],
      [kind |-> "http", ok |-> FALSE, status |-> 500,
       json |-> [parse |-> TRUE, data |-> [error |-> "Discovery failed"]]],
      [kind |-> "http", ok |-> FALSE, status |-> 404,
       json |-> [parse |-> TRUE, data |-> [detail |-> "x"]]],
      [kind |-> "http", ok |-> TRUE, status |-> 200, json |-> [parse |-> FALSE]],
      [kind |-> "http", ok |-> TRUE, status |-> 200,
       json |-> [parse |-> TRUE, data |-> [message |-> <<"done">>]]] }
    \cup { [kind |-> "http", ok |-> TRUE, status |-> 200,
            json |-> [parse |-> TRUE, data |-> [pages |-> pages]]] : pages \in DiscoveryResults }

\* JSON.stringify({ url: submittedUrl, depth }) as the route parses it.
SubmitRequest(submittedUrl, depth) ==
    [parse |-> TRUE, data |-> [url |-> submittedUrl, depth |-> depth]]

\* What can answer the fetch of line 51: nothing (the fetch rejects),
\* something that is not the route (no JSON in the body), or the route, its
\* backend answering `backend`.
SubmitAnswers ==
    { [kind |-> "throw"], [kind |-> "gateway"] }
    \cup { [kind |-> "route", backend |-> backend] : backend \in DiscoverBackends }

\* The response to `request` that the fetch of line 51 and the reading of its
\* body give.
SubmitResponse(request, answer) ==
    CASE answer.kind = "throw" -> [kind |-> "throw"]
      [] answer.kind = "gateway" -> [kind |-> "http", status |-> 502, json |-> [parse |-> FALSE]]
      [] OTHER ->
            LET returned == POST(request, answer.backend).response
            IN  [kind |-> "http", status |-> returned.status,
                 json |-> [parse |-> TRUE, data |-> returned.body]]

\* response.ok taken to need a page as well: an empty result read as a failure.
OkWithPages(response) ==
    /\ response.status \in 200..299
    /\ Has(response.json.data, "pages")
    /\ response.json.data.pages # <<>>

\* response.ok
Ok(response) == response.status \in 200..299

InvalidUrlToast ==
    Toast("Invalid URL",
          "Please enter a valid URL including the protocol (http:// or https://)",
          "destructive")

\* Submit with the state reset of lines 39-42 moved before the validation.
SubmitResetsFirst(submittedUrl, depth) ==
    /\ Len(crawls) + Len(submits) < MaxCalls
    /\ url' = submittedUrl
    /\ isProcessing' = TRUE
    /\ markdown' = <<>>
    /\ discoveredPages' = <<>>
    /\ submits' = Append(submits,
          IF ~validateUrl(submittedUrl)
          THEN [pc |-> "done", submittedUrl |-> submittedUrl, depth |-> depth,
                sent |-> <<>>, removed |-> Len(discoveredPages), outcome |-> "invalid",
                toasts |-> <<InvalidUrlToast>>]
          ELSE [pc |-> "awaitFetch", submittedUrl |-> submittedUrl, depth |-> depth,
                sent |-> <<SubmitRequest(submittedUrl, depth)>>,
                removed |-> Len(discoveredPages), outcome |-> "", toasts |-> <<>>])
    /\ UNCHANGED <<isCrawling, stats, saveCalls, crawls>>
    /\ UNCHANGED <<routePc, routeRequest, routeSent, routeResponse>>

\* Submit with the setDiscoveredPages([]) of line 42 left out.
SubmitKeepsPages(submittedUrl, depth) ==
    /\ Len(crawls) + Len(submits) < MaxCalls
    /\ IF ~validateUrl(submittedUrl)
       THEN /\ submits' = Append(submits,
                  [pc |-> "done", submittedUrl |-> submittedUrl, depth |-> depth,
                   sent |-> <<>>, removed |-> 0, outcome |-> "invalid",
                   toasts |-> <<InvalidUrlToast>>])
            /\ UNCHANGED <<url, isProcessing, markdown>>
       ELSE /\ url' = submittedUrl
            /\ isProcessing' = TRUE
            /\ markdown' = <<>>
            /\ submits' = Append(submits,
                  [pc |-> "awaitFetch", submittedUrl |-> submittedUrl, depth |-> depth,
                   sent |-> <<SubmitRequest(submittedUrl, depth)>>,
                   removed |-> 0, outcome |-> "", toasts |-> <<>>])
    /\ UNCHANGED <<discoveredPages, isCrawling, stats, saveCalls, crawls>>
    /\ UNCHANGED <<routePc, routeRequest, routeSent, routeResponse>>

\* Lines 29-57: up to the await of fetch.
Submit(submittedUrl, depth) ==
    /\ Calls < MaxCalls
    /\ IF ~validateUrl(submittedUrl)
       THEN /\ submits' = Append(submits,
                  [pc |-> "done", submittedUrl |-> submittedUrl, depth |-> depth,
                   sent |-> <<>>, removed |-> 0, outcome |-> "invalid",
                   toasts |-> <<InvalidUrlToast>>])
            /\ UNCHANGED <<url, isProcessing, markdown, discoveredPages>>
       ELSE /\ url' = submittedUrl
            /\ isProcessing' = TRUE
            /\ markdown' = <<>>
            /\ discoveredPages' = <<>>
            /\ submits' = Append(submits,
                  [pc |-> "awaitFetch", submittedUrl |-> submittedUrl, depth |-> depth,
                   sent |-> <<SubmitRequest(submittedUrl, depth)>>,
                   removed |-> Len(discoveredPages),
                   outcome |-> "", toasts |-> <<>>])
    /\ UNCHANGED <<isCrawling, stats, saveCalls, crawls>>
    /\ UNCHANGED routeVars

\* error.message.includes('Failed to discover pages'), over the messages above.
IncludesFailedToDiscover(message) == message = "Failed to discover pages"

\* SubmitCatch with the toast calls of lines 135-146 left out.
SubmitCatchSilent(j, message, outcome, shown) ==
    /\ isProcessing' = FALSE
    /\ submits' = [submits EXCEPT
          ![j].pc = "done", ![j].outcome = outcome, ![j].toasts = @ \o shown]
    /\ UNCHANGED <<url, discoveredPages, isCrawling, markdown, stats, saveCalls, crawls>>

\* Lines 130-150: the catch block and the finally block, after the toasts
\* `shown` before the throw.
SubmitCatch(j, message, outcome, shown) ==
    /\ isProcessing' = FALSE
    /\ submits' = [submits EXCEPT
          ![j].pc = "done", ![j].outcome = outcome,
          ![j].toasts = @ \o shown \o
             << IF ~IncludesFailedToDiscover(message)
                THEN Toast("Error", message, "destructive")
                ELSE Toast("Error",
                           "Failed to discover pages. Check the console for more details.",
                           "destructive") >>]
    /\ UNCHANGED <<url, discoveredPages, isCrawling, markdown, stats, saveCalls, crawls>>

\* `Error: ${errorType}`
ErrorTitle(data) ==
    IF ~Has(data, "errorType") THEN "Error: Unknown"
    ELSE IF data.errorType = "TypeError" THEN "Error: TypeError"
    ELSE IF data.errorType = "SyntaxError" THEN "Error: SyntaxError"
    ELSE "Error: Error"

\* data.error || 'Failed to discover pages'
SubmitErrorMessage(data) ==
    IF Has(data, "error") /\ data.error # "" THEN data.error ELSE "Failed to discover pages"

\* The fetch of line 51 settles and the body is read (line 62): lines 59-129
\* and the finally block, or the catch.  As in handleCrawlSelected, the two
\* awaits are one step.
SubmitSettles(j, answer) ==
    /\ j \in DOMAIN submits
    /\ submits[j].pc = "awaitFetch"
    /\ LET response == SubmitResponse(submits[j].sent[1], answer)
           data == response.json.data
           pages == IF Has(data, "pages") THEN data.pages ELSE <<>>
           failed == Len(errorPages(pages))
       IN  CASE response.kind = "throw" ->
                    SubmitCatch(j, FetchFailed.message, "transport", <<>>)
             [] response.kind = "http" /\ ~response.json.parse ->
                    SubmitCatch(j, SyntaxError.message, "malformed", <<>>)
             [] response.kind = "http" /\ response.json.parse /\ ~Ok(response) ->
                    SubmitCatch(j, SubmitErrorMessage(data), "non2xx",
                                <<Toast(ErrorTitle(data), SubmitErrorMessage(data), "destructive")>>)
             [] OTHER ->
                    /\ discoveredPages' = pages
                    /\ stats' = [stats EXCEPT !.subdomainsParsed = Len(pages),
                                              !.errorsEncountered = failed]
                    /\ isProcessing' = FALSE
                    /\ submits' = [submits EXCEPT
                          ![j].pc = "done", ![j].outcome = "discovered",
                          ![j].toasts = @ \o
                             (IF Len(pages) > 0
                              THEN (IF failed > 0
                                    THEN <<Toast("Warning",
                                                 "pages encountered errors during discovery",
                                                 "default")>>
                                    ELSE <<>>)
                                   \o <<Toast("Pages Discovered", "Found related pages", "default")>>
                              ELSE <<Toast("No Pages Found",
                                           "The crawler couldn't find any pages to process.",
                                           "default")>>)]
                    /\ UNCHANGED <<url, isCrawling, markdown, saveCalls, crawls>>
    /\ UNCHANGED routeVars

----------------------------------------------------------------------------
(* The application.                                                        *)

Init ==
    /\ url = ""
    /\ isProcessing = FALSE
    /\ discoveredPages = <<>>
    /\ isCrawling = FALSE
    /\ markdown = <<>>
    /\ stats = [subdomainsParsed |-> 0, pagesCrawled |-> 0,
                dataExtracted |-> [value |-> 0, unit |-> "KB"], errorsEncountered |-> 0]
    /\ saveCalls = {}
    /\ crawls = <<>>
    /\ submits = <<>>
    /\ routePc = "idle"
    /\ routeRequest = NoResponse
    /\ routeSent = <<>>
    /\ routeResponse = NoResponse

Next ==
    \/ \E submittedUrl \in Seeds, depth \in Depths : Submit(submittedUrl, depth)
    \/ \E j \in DOMAIN submits, answer \in SubmitAnswers : SubmitSettles(j, answer)
    \/ \E selectedUrls \in Selections : CrawlSelected(selectedUrls)
    \/ \E i \in DOMAIN crawls, response \in CrawlResponses : CrawlSettles(i, response)
    \/ \E i \in DOMAIN crawls, saved \in BOOLEAN : CrawlSaveSettles(i, saved)

Spec == Init /\ [][Next]_vars

\* A step in which an awaited promise settles and its continuation runs.
Settles ==
    \/ \E j \in DOMAIN submits, answer \in SubmitAnswers : SubmitSettles(j, answer)
    \/ \E i \in DOMAIN crawls, response \in CrawlResponses : CrawlSettles(i, response)
    \/ \E i \in DOMAIN crawls, saved \in BOOLEAN : CrawlSaveSettles(i, saved)

\* Requests are answered and saveMarkdown calls return: while a promise is
\* awaited, one of the awaited promises settles in the end.
FairSpec == Spec /\ WF_vars(Settles)

----------------------------------------------------------------------------
(* The /api/discover route on its own: POST given any request.             *)

\* Bound of the route's inputs: the integer depths tried are -DepthRange..DepthRange.
DepthRange == 12

DepthInputs ==
    { Num(n) : n \in -DepthRange..DepthRange }
    \cup { Frac(0, <<"5">>), Frac(2, <<"5">>), Frac(7, <<"9">>) }
    \cup { Null, Bool(TRUE), Str(<<>>), Str(<<"a", "b", "c">>), Str(<<"4">>),
           Str(<<" ", "2">>), Str(<<"7", "p", "x">>), Str(<<"-", "1">>), Str(<<"0">>) }

RouteBodies ==
    { [url |-> u, depth |-> d] : u \in {"", "https://example.com"}, d \in DepthInputs }
    \cup { [url |-> u] : u \in {"", "https://example.com"} }
    \cup { [depth |-> d] : d \in DepthInputs }

RouteRequests ==
    { [parse |-> FALSE] } \cup { [parse |-> TRUE, data |-> body] : body \in RouteBodies }

RouteInit ==
    /\ url = ""
    /\ isProcessing = FALSE
    /\ discoveredPages = <<>>
    /\ isCrawling = FALSE
    /\ markdown = <<>>
    /\ stats = [subdomainsParsed |-> 0, pagesCrawled |-> 0,
                dataExtracted |-> [value |-> 0, unit |-> "KB"], errorsEncountered |-> 0]
    /\ saveCalls = {}
    /\ crawls = <<>>
    /\ submits = <<>>
    /\ routePc = "received"
    /\ routeRequest \in RouteRequests
    /\ routeSent = <<>>
    /\ routeResponse = NoResponse

homeVars == <<url, isProcessing, discoveredPages, isCrawling, markdown, stats,
              saveCalls, crawls, submits>>

\* POST, lines 3-30.
RoutePost ==
    /\ routePc = "received"
    /\ LET received == RouteReceive(routeRequest)
       IN  /\ routeSent' = received.sent
           /\ routeResponse' = received.response
           /\ routePc' = IF received.sent = <<>> THEN "done" ELSE "awaitBackend"
    /\ UNCHANGED <<routeRequest, homeVars>>

\* POST, lines 32-92: the backend's answer arrives.
RouteBackendSettles(backend) ==
    /\ routePc = "awaitBackend"
    /\ routeResponse' = RouteAnswer(backend)
    /\ routePc' = "done"
    /\ UNCHANGED <<routeRequest, routeSent, homeVars>>

RouteNext ==
    \/ RoutePost
    \/ \E backend \in DiscoverBackends : RouteBackendSettles(backend)

RouteSpec == RouteInit /\ [][RouteNext]_vars

----------------------------------------------------------------------------
(* Properties of handleCrawlSelected.                                      *)

FailureOutcomes == {"transport", "malformed", "non2xx", "errorField"}

\* Invocation i of handleCrawlSelected ends in this step, in its catch block.
CrawlFails(i) ==
    /\ i \in DOMAIN crawls
    /\ crawls[i].pc # "done"
    /\ crawls'[i].pc = "done"
    /\ crawls'[i].outcome \in FailureOutcomes

\* Invocation i of handleCrawlSelected starts in this step.
CrawlStarts(i) == i \in DOMAIN crawls' /\ i \notin DOMAIN crawls

\* Every page and every internal link of `pages` that `selectedUrls` names
\* has status `status`.
AllSelectedAre(pages, selectedUrls, status) ==
    \A k \in DOMAIN pages :
       /\ pages[k].url \in selectedUrls => pages[k].status = status
       /\ Has(pages[k], "internalLinks") =>
             \A n \in DOMAIN pages[k].internalLinks :
                pages[k].internalLinks[n].href \in selectedUrls =>
                   /\ Has(pages[k].internalLinks[n], "status")
                   /\ pages[k].internalLinks[n].status = status

\* The step keeps the pages, their order and the status of every page that
\* `selectedUrls` does not name.
UnselectedPagesKept(selectedUrls) ==
    /\ Len(discoveredPages') = Len(discoveredPages)
    /\ \A k \in DOMAIN discoveredPages :
          /\ discoveredPages'[k].url = discoveredPages[k].url
          /\ discoveredPages[k].url \notin selectedUrls =>
                discoveredPages'[k].status = discoveredPages[k].status

\* C1: when the crawl request of an invocation fails (the fetch throws, the
\* response is not 2xx, the body does not parse or carries an error), then as
\* the invocation ends every page and every internal link that selectedUrls
\* names has status 'error', the whole selection; and neither the step that
\* starts the invocation nor the step that ends it changes the status of a
\* page that selectedUrls does not name.
C1_FailedCrawlMarksWholeSelection ==
    [][ /\ \A i \in DOMAIN crawls :
              CrawlFails(i) =>
                 /\ AllSelectedAre(discoveredPages', crawls[i].selectedUrls, "error")
                 /\ UnselectedPagesKept(crawls[i].selectedUrls)
        /\ \A i \in DOMAIN crawls' :
              CrawlStarts(i) => UnselectedPagesKept(crawls'[i].selectedUrls)
      ]_vars

\* A failed invocation has ended: the page it selected is in error beside a
\* page it did not select, which is not.
C1_Witness ==
    \E i \in DOMAIN crawls :
       /\ crawls[i].pc = "done"
       /\ crawls[i].outcome \in FailureOutcomes
       /\ \E k, m \in DOMAIN discoveredPages :
             /\ discoveredPages[k].url \in crawls[i].selectedUrls
             /\ discoveredPages[k].status = "error"
             /\ discoveredPages[m].url \notin crawls[i].selectedUrls
             /\ discoveredPages[m].status = "not-started"

\* Invocation i of handleCrawlSelected ends in this step, its crawl answered
\* and its saveMarkdown rejected.
SaveFails(i) ==
    /\ i \in DOMAIN crawls
    /\ crawls[i].pc = "awaitSave"
    /\ crawls'[i].pc = "done"
    /\ crawls'[i].outcome = "saveFailed"

SaveFailureToast == Toast("Error", "Failed to save content for later use", "destructive")

InSeq(x, seq) == \E n \in DOMAIN seq : seq[n] = x

\* C2: when the crawl succeeds and saving the markdown fails, a toast about
\* the saving is made, the error counter stays as it is, and every selected
\* page and link ends with status 'crawled'.
C2_SaveFailureKeepsCrawlSuccess ==
    [][ \A i \in DOMAIN crawls :
           SaveFails(i) =>
              /\ InSeq(SaveFailureToast, crawls'[i].toasts)
              /\ stats'.errorsEncountered = stats.errorsEncountered
              /\ AllSelectedAre(discoveredPages', crawls[i].selectedUrls, "crawled")
      ]_vars

Pos(seq, x) == IF InSeq(x, seq) THEN CHOOSE n \in DOMAIN seq : seq[n] = x ELSE 0

\* If y is in seq then x is, and earlier.
Precedes(seq, x, y) == InSeq(y, seq) => (InSeq(x, seq) /\ Pos(seq, x) < Pos(seq, y))

\* Invocation i applies its 'crawled' or 'error' mark in this step.
CrawlReconciles(i) ==
    /\ i \in DOMAIN crawls
    /\ crawls[i].pc # "done"
    /\ crawls'[i].pc = "done"
    /\ crawls'[i].outcome # "saveFailed"

\* C3: within one invocation the 'pending' mark is applied to the model, then
\* the crawl request is issued, then the request settles, then the 'crawled'
\* or 'error' mark is applied; no invocation has applied its reconciliation
\* mark without having applied its pending mark.
C3_PendingBeforeRequestBeforeReconciliation ==
    /\ [](\A i \in DOMAIN crawls :
             LET trace == crawls[i].trace
             IN  /\ Precedes(trace, "pending", "request")
                 /\ Precedes(trace, "request", "settled")
                 /\ Precedes(trace, "settled", "crawled")
                 /\ Precedes(trace, "settled", "error")
                 /\ InSeq("pending", trace))
    /\ [][ /\ \A i \in DOMAIN crawls' :
                 CrawlStarts(i) =>
                    /\ AllSelectedAre(discoveredPages', crawls'[i].selectedUrls, "pending")
                    /\ crawls'[i].pc = "awaitFetch"
                    /\ crawls'[i].trace = <<"pending", "request">>
           /\ \A i \in DOMAIN crawls :
                 CrawlReconciles(i) =>
                    /\ InSeq("request", crawls[i].trace)
                    /\ InSeq("settled", crawls'[i].trace)
                    /\ \/ AllSelectedAre(discoveredPages', crawls[i].selectedUrls, "crawled")
                       \/ AllSelectedAre(discoveredPages', crawls[i].selectedUrls, "error")
                    /\ \/ Pos(crawls'[i].trace, "crawled") = Len(crawls'[i].trace)
                       \/ Pos(crawls'[i].trace, "error") = Len(crawls'[i].trace)
         ]_vars

\* An invocation has gone through all four steps on a page of the model.
C3_Witness ==
    \E i \in DOMAIN crawls :
       /\ crawls[i].trace = <<"pending", "request", "settled", "save", "crawled">>
       /\ \E k \in DOMAIN discoveredPages :
             /\ discoveredPages[k].url \in crawls[i].selectedUrls
             /\ discoveredPages[k].status = "crawled"

\* Invocation i of handleCrawlSelected ends in this step.
CrawlEnds(i) ==
    /\ i \in DOMAIN crawls
    /\ crawls[i].pc # "done"
    /\ crawls'[i].pc = "done"

CrawlOutcomes == FailureOutcomes \cup {"saved", "saveFailed"}

\* C4: when the crawl request and the save call settle, every invocation of
\* handleCrawlSelected reaches its end, on whichever path (saved, save failed,
\* response not 2xx, error field, transport exception), and the step that
\* ends it leaves isCrawling false.
C4_CrawlTerminatesAndClearsBusy ==
    /\ \A i \in 1..MaxCalls :
          (i \in DOMAIN crawls) ~>
             (i \in DOMAIN crawls /\ crawls[i].pc = "done"
                 /\ crawls[i].outcome \in CrawlOutcomes)
    /\ [][ \A i \in DOMAIN crawls : CrawlEnds(i) => isCrawling' = FALSE ]_vars

\* Three invocations have ended on three of the paths and the flag is clear.
C4_Witness ==
    /\ ~isCrawling
    /\ \E i, k, m \in DOMAIN crawls :
          /\ crawls[i].pc = "done" /\ crawls[i].outcome = "saveFailed"
          /\ crawls[k].pc = "done" /\ crawls[k].outcome = "errorField"
          /\ crawls[m].pc = "done" /\ crawls[m].outcome = "transport"

----------------------------------------------------------------------------
(* Properties of handleSubmit.                                             *)

SubmitFailures == {"transport", "malformed", "non2xx"}

\* Invocation j of handleSubmit ends in this step, in its catch block.
SubmitFails(j) ==
    /\ j \in DOMAIN submits
    /\ submits[j].pc # "done"
    /\ submits'[j].pc = "done"
    /\ submits'[j].outcome \in SubmitFailures

\* Invocation j of handleSubmit starts in this step.
SubmitStarts(j) == j \in DOMAIN submits' /\ j \notin DOMAIN submits

\* C5, as claimed: when a discovery run started with a valid URL fails, the
\* model after the run is the model before handleSubmit was called: the call
\* removed no page and the failing step changes none.
C5_FailedDiscoveryKeepsModel ==
    [][ \A j \in DOMAIN submits :
           SubmitFails(j) =>
              /\ submits[j].removed = 0
              /\ discoveredPages' = discoveredPages
      ]_vars

\* C5, amended: a discovery run started with a valid URL empties the model
\* when it is called, and when it fails its last step adds and changes no
\* page.
C5_FailedDiscoveryAddsNoPage ==
    [][ /\ \A j \in DOMAIN submits :
              SubmitFails(j) => discoveredPages' = discoveredPages
        /\ \A j \in DOMAIN submits' :
              (SubmitStarts(j) /\ validateUrl(submits'[j].submittedUrl)) =>
                 /\ discoveredPages' = <<>>
                 /\ submits'[j].removed = Len(discoveredPages)
      ]_vars

\* A discovery run that removed the pages of an earlier one has failed, and
\* the model is empty.
C5_Witness ==
    \E j \in DOMAIN submits :
       /\ submits[j].pc = "done"
       /\ submits[j].outcome \in SubmitFailures
       /\ submits[j].removed > 0
       /\ discoveredPages = <<>>

\* C10: a call of handleSubmit with a URL that validateUrl rejects makes the
\* 'Invalid URL' toast and nothing else: it sends no request and leaves url,
\* discoveredPages, markdown, stats and the two busy flags as they are.
C10_InvalidUrlChangesNothing ==
    [][ \A j \in DOMAIN submits' :
           (SubmitStarts(j) /\ ~validateUrl(submits'[j].submittedUrl)) =>
              /\ submits'[j].pc = "done"
              /\ submits'[j].sent = <<>>
              /\ submits'[j].toasts = <<InvalidUrlToast>>
              /\ UNCHANGED <<url, discoveredPages, markdown, stats, isProcessing, isCrawling,
                             saveCalls, crawls>>
      ]_vars

\* A URL has been rejected while pages were in the model and a crawl was in
\* flight.
C10_Witness ==
    \E j \in DOMAIN submits :
       /\ submits[j].outcome = "invalid"
       /\ ~validateUrl(submits[j].submittedUrl)
       /\ discoveredPages # <<>>
       /\ url # ""
       /\ isCrawling

----------------------------------------------------------------------------
(* Properties of the status marks.                                         *)

\* The step is a status mark of the model with selection S: the 'pending' mark
\* of a starting invocation, or the 'error' or 'crawled' mark of an ending one.
Marks(S) ==
    \/ \E i \in DOMAIN crawls' : CrawlStarts(i) /\ crawls'[i].selectedUrls = S
    \/ \E i \in DOMAIN crawls : CrawlReconciles(i) /\ crawls[i].selectedUrls = S

\* The step keeps the pages and the links, each at its place.
SamePagesAndLinks ==
    /\ Len(discoveredPages') = Len(discoveredPages)
    /\ \A k \in DOMAIN discoveredPages :
          /\ discoveredPages'[k].url = discoveredPages[k].url
          /\ Has(discoveredPages'[k], "internalLinks") = Has(discoveredPages[k], "internalLinks")
          /\ Has(discoveredPages[k], "internalLinks") =>
                /\ Len(discoveredPages'[k].internalLinks) = Len(discoveredPages[k].internalLinks)
                /\ \A n \in DOMAIN discoveredPages[k].internalLinks :
                      discoveredPages'[k].internalLinks[n].href
                         = discoveredPages[k].internalLinks[n].href

\* The step changes the status of no page that S does not name.
OtherPagesKept(S) ==
    \A k \in DOMAIN discoveredPages :
       discoveredPages[k].url \notin S =>
          discoveredPages'[k].status = discoveredPages[k].status

\* The step leaves every link that S does not name exactly as it is: with
\* the status it has, or with none.
OtherLinksUntouched(S) ==
    \A k \in DOMAIN discoveredPages :
       Has(discoveredPages[k], "internalLinks") =>
          \A n \in DOMAIN discoveredPages[k].internalLinks :
             discoveredPages[k].internalLinks[n].href \notin S =>
                discoveredPages'[k].internalLinks[n] = discoveredPages[k].internalLinks[n]

\* The step leaves every link that S does not name with the status it has,
\* or with 'pending' when it has none.
OtherLinksKeptOrDefaulted(S) ==
    \A k \in DOMAIN discoveredPages :
       Has(discoveredPages[k], "internalLinks") =>
          \A n \in DOMAIN discoveredPages[k].internalLinks :
             LET before == discoveredPages[k].internalLinks[n]
                 after == discoveredPages'[k].internalLinks[n]
             IN  before.href \notin S =>
                    /\ Has(after, "status")
                    /\ after.status = IF Has(before, "status") THEN before.status ELSE "pending"

\* C6, as claimed: a status mark with selection S keeps the pages and the
\* links and their order, and leaves every page and every link that S does
\* not name with exactly the status it had, a link with no status included.
C6_MarkTouchesOnlySelection ==
    [][ \A S \in Selections :
           Marks(S) => (SamePagesAndLinks /\ OtherPagesKept(S) /\ OtherLinksUntouched(S))
      ]_vars

\* C6, amended: a status mark with selection S keeps the pages and the links
\* and their order, leaves every page that S does not name with the status it
\* had, and leaves every link that S does not name with the status it had, or
\* with 'pending' when it had none.
C6_MarkKeepsOrDefaultsOthers ==
    [][ \A S \in Selections :
           Marks(S) =>
              (SamePagesAndLinks /\ OtherPagesKept(S) /\ OtherLinksKeptOrDefaulted(S))
      ]_vars

\* A mark has been applied that named neither a link with a status nor a link
\* without one: the first has kept its status, the second is 'pending'.
C6_Witness ==
    \E i \in DOMAIN crawls, k \in DOMAIN discoveredPages :
       /\ crawls[i].selectedUrls = {"a"}
       /\ discoveredPages[k].url = "a"
       /\ discoveredPages[k].status \in {"pending", "crawled", "error"}
       /\ discoveredPages[k].internalLinks
             = <<Link("b", "pending"), Link("c", "not-started")>>
       /\ \A m \in DOMAIN crawls : crawls[m].selectedUrls = {"a"}

----------------------------------------------------------------------------
(* Properties of the crawl response.                                       *)

\* A 200 response whose body carries a non-empty error field.
ErrorIn200(response) ==
    /\ response.kind = "http"
    /\ response.ok
    /\ response.json.parse
    /\ Has(response.json.data, "error")
    /\ response.json.data.error # ""

\* C7: a crawl response with status 200 and a non-empty error field in its
\* body is a failure: the step that handles it marks the selection 'error',
\* adds one to errorsEncountered, makes the failure toast and ends the
\* invocation, which neither saves the markdown nor sets it nor marks a page
\* 'crawled'.
C7_ErrorFieldIn200IsFailure ==
    /\ [][ \A i \in DOMAIN crawls, response \in CrawlResponses :
              (ErrorIn200(response) /\ CrawlSettles(i, response)) =>
                 /\ crawls'[i].pc = "done"
                 /\ crawls'[i].outcome = "errorField"
                 /\ AllSelectedAre(discoveredPages', crawls[i].selectedUrls, "error")
                 /\ stats'.errorsEncountered = stats.errorsEncountered + 1
                 /\ crawls'[i].toasts
                       = <<Toast("Error", response.json.data.error, "destructive")>>
                 /\ UNCHANGED <<saveCalls, markdown>>
                 /\ ~InSeq("save", crawls'[i].trace)
                 /\ ~InSeq("crawled", crawls'[i].trace)
         ]_vars
    /\ [](\A i \in DOMAIN crawls :
             crawls[i].outcome = "errorField" => crawls[i].pc = "done")

\* A crawl answered 200 with an error field has ended: its page is in error
\* and nothing was saved or shown.
C7_Witness ==
    \E i \in DOMAIN crawls, k \in DOMAIN discoveredPages :
       /\ crawls[i].outcome = "errorField"
       /\ discoveredPages[k].url \in crawls[i].selectedUrls
       /\ discoveredPages[k].status = "error"
       /\ saveCalls = {}
       /\ markdown = <<>>
       /\ Len(crawls) = 1

----------------------------------------------------------------------------
(* Properties of the /api/discover route.                                  *)

Clamp(n, low, high) == IF n < low THEN low ELSE IF n > high THEN high ELSE n

\* The depth of the body is a JSON number with no fraction.
IsIntegerDepth(body) ==
    Has(body, "depth") /\ body.depth.t = "num" /\ body.depth.frac = <<>>

IntegerDepth(body) == IF body.depth.neg THEN -body.depth.int ELSE body.depth.int

\* The depth of the body is null, a boolean, or a string without any digit.
IsNonNumericDepth(body) ==
    /\ Has(body, "depth")
    /\ \/ body.depth.t \in {"null", "bool"}
       \/ body.depth.t = "str" /\ \A n \in DOMAIN body.depth.v : ~IsDigit(body.depth.v[n])

\* C8: the depth the route sends to the backend is clamp(depth, 1, 5) for
\* every integer depth, zero and the negative ones included, and 3 for a depth
\* that is absent or not numeric.
C8_SentDepthIsClampOrDefault ==
    \A n \in DOMAIN routeSent :
       LET body == routeRequest.data
       IN  /\ IsIntegerDepth(body) =>
                routeSent[n].depth = Clamp(IntegerDepth(body), MinDepth, MaxDepth)
           /\ (~Has(body, "depth") \/ IsNonNumericDepth(body)) =>
                routeSent[n].depth = DefaultDepth

\* C9: whatever the depth of an accepted request body (in range, out of
\* range, zero, negative, not numeric, null or absent), the depth of every
\* request the route sends to the backend is an integer from 1 to 5.
C9_SentDepthInRange ==
    \A n \in DOMAIN routeSent :
       /\ routeSent[n].depth \in Int
       /\ routeSent[n].depth >= MinDepth
       /\ routeSent[n].depth <= MaxDepth

\* The route has answered a request whose depth was out of range, having
\* sent a depth in range.
C9_Witness ==
    /\ routePc = "done"
    /\ Len(routeSent) = 1
    /\ IsIntegerDepth(routeRequest.data)
    /\ IntegerDepth(routeRequest.data) > MaxDepth
    /\ routeSent[1].depth = MaxDepth
    /\ routeResponse.status = 200

----------------------------------------------------------------------------
(* Properties of an empty discovery.                                       *)

\* The backend answers 2xx with a body whose pages array is empty.
EmptyDiscovery(backend) ==
    /\ backend.kind = "http"
    /\ backend.ok
    /\ backend.json.parse
    /\ Has(backend.json.data, "pages")
    /\ backend.json.data.pages = <<>>

NoPagesFoundToast ==
    Toast("No Pages Found", "The crawler couldn't find any pages to process.", "default")

\* C11: when the backend answers a discovery with success and an empty pages
\* array, the route answers 200 with pages = [] and a message, and the step of
\* handleSubmit that handles it is its success path: it installs the empty
\* set, does not raise errorsEncountered, and makes the 'No Pages Found' toast
\* of default severity and no destructive one.
C11_EmptyDiscoveryIsSuccess ==
    [][ \A j \in DOMAIN submits, backend \in DiscoverBackends :
           (EmptyDiscovery(backend)
              /\ SubmitSettles(j, [kind |-> "route", backend |-> backend])) =>
              LET returned == POST(submits[j].sent[1], backend).response
              IN  /\ returned.status = 200
                  /\ returned.body.pages = <<>>
                  /\ Has(returned.body, "message")
                  /\ returned.body.message # <<>>
                  /\ discoveredPages' = <<>>
                  /\ stats'.subdomainsParsed = 0
                  /\ stats'.errorsEncountered <= stats.errorsEncountered
                  /\ submits'[j].pc = "done"
                  /\ submits'[j].outcome = "discovered"
                  /\ submits'[j].toasts = <<NoPagesFoundToast>>
                  /\ \A n \in DOMAIN submits'[j].toasts :
                        submits'[j].toasts[n].variant # "destructive"
      ]_vars

\* A discovery that removed the pages of an earlier one has ended with an
\* empty result: the model is empty and the only toast is 'No Pages Found'.
C11_Witness ==
    \E j \in DOMAIN submits :
       /\ submits[j].pc = "done"
       /\ submits[j].outcome = "discovered"
       /\ submits[j].removed > 0
       /\ submits[j].toasts = <<NoPagesFoundToast>>
       /\ discoveredPages = <<>>
       /\ stats.subdomainsParsed = 0

----------------------------------------------------------------------------
(* Properties of the stats.                                                *)

\* No invocation of handleSubmit or handleCrawlSelected is at an await.
NothingInFlight(cs, ss) ==
    /\ \A i \in DOMAIN cs : cs[i].pc = "done"
    /\ \A j \in DOMAIN ss : ss[j].pc = "done"

\* How many pages of `pages` have status `status`.
PagesWithStatus(pages, status) ==
    Cardinality({ k \in DOMAIN pages : pages[k].status = status })

\* The pages of `pages` that `selectedUrls` names, in order.
NamedPages(pages, selectedUrls) ==
    SelectSeq(pages, LAMBDA page : page.url \in selectedUrls)

\* C12, as claimed: when a crawl batch completes and leaves no operation in
\* flight, stats.pagesCrawled is the number of pages of the model whose status
\* is 'crawled'.
C12_PagesCrawledCountsCrawledPages ==
    [][ \A i \in DOMAIN crawls :
           (CrawlEnds(i) /\ NothingInFlight(crawls', submits')) =>
              stats'.pagesCrawled = PagesWithStatus(discoveredPages', "crawled")
      ]_vars

\* C12, amended: stats.pagesCrawled is the size of the payload of the last
\* crawl batch that succeeded and was saved.  Such a batch sets it to the number
\* of pages it sent, which are the pages of the model that its selection named
\* when it was called; no other step changes it: not a failed batch, not a
\* failed save, not a discovery run.
C12_PagesCrawledIsLastSavedPayload ==
    [][ /\ \A i \in DOMAIN crawls' :
              CrawlStarts(i) =>
                 crawls'[i].selectedPages
                    = NamedPages(discoveredPages, crawls'[i].selectedUrls)
        /\ \A i \in DOMAIN crawls :
              (CrawlEnds(i) /\ crawls'[i].outcome = "saved") =>
                 stats'.pagesCrawled = Len(crawls[i].selectedPages)
        /\ stats'.pagesCrawled # stats.pagesCrawled =>
              \E i \in DOMAIN crawls : CrawlEnds(i) /\ crawls'[i].outcome = "saved"
      ]_vars

\* Two batches of one page each have been crawled and saved one after the
\* other: two pages are 'crawled' and pagesCrawled is 1.
C12_Witness ==
    /\ NothingInFlight(crawls, submits)
    /\ Len(crawls) = 2
    /\ \A i \in DOMAIN crawls :
          crawls[i].outcome = "saved" /\ Len(crawls[i].selectedPages) = 1
    /\ PagesWithStatus(discoveredPages, "crawled") = 2
    /\ stats.pagesCrawled = 1

\* C13: whenever no operation is in flight, stats.subdomainsParsed is the
\* number of pages in discoveredPages, after a discovery run that succeeded
\* and after one that emptied the model and failed alike.
C13_SubdomainsParsedCountsPages ==
    NothingInFlight(crawls, submits) => stats.subdomainsParsed = Len(discoveredPages)

\* How many internal links of the pages of `pages` have status `status`.
LinksWithStatus(pages, status) ==
    Cardinality(UNION {
        { <<k, n>> : n \in { m \in DOMAIN pages[k].internalLinks :
                                /\ Has(pages[k].internalLinks[m], "status")
                                /\ pages[k].internalLinks[m].status = status } } :
        k \in { q \in DOMAIN pages : Has(pages[q], "internalLinks") } })

\* How many crawl batches have been rejected.
FailedBatches ==
    Cardinality({ i \in DOMAIN crawls :
                    crawls[i].pc = "done" /\ crawls[i].outcome \in FailureOutcomes })

\* Invocation j of handleSubmit ends in this step, having installed its pages.
SubmitInstalls(j) ==
    /\ j \in DOMAIN submits
    /\ submits[j].pc # "done"
    /\ submits'[j].pc = "done"
    /\ submits'[j].outcome = "discovered"

\* C14, as claimed: whenever no operation is in flight, stats.errorsEncountered
\* is the number of pages and links of the model whose status is 'error' plus
\* the number of crawl batches that were rejected.
C14_ErrorsCountErrorItemsAndFailedBatches ==
    NothingInFlight(crawls, submits) =>
       stats.errorsEncountered
          = PagesWithStatus(discoveredPages, "error")
            + LinksWithStatus(discoveredPages, "error")
            + FailedBatches

\* C14, amended: a discovery run that succeeds sets stats.errorsEncountered
\* to the number of pages it installs whose status is 'error', links not
\* counted; a crawl batch that fails adds exactly one, however many pages and
\* links it marks 'error'; no other step changes it.
C14_ErrorsSetByDiscoveryPlusOnePerFailedBatch ==
    [][ /\ \A j \in DOMAIN submits :
              SubmitInstalls(j) =>
                 stats'.errorsEncountered = PagesWithStatus(discoveredPages', "error")
        /\ \A i \in DOMAIN crawls :
              CrawlFails(i) => stats'.errorsEncountered = stats.errorsEncountered + 1
        /\ stats'.errorsEncountered # stats.errorsEncountered =>
              \/ \E j \in DOMAIN submits : SubmitInstalls(j)
              \/ \E i \in DOMAIN crawls : CrawlFails(i)
      ]_vars

\* One batch of two pages has failed: two pages and a link are in error,
\* and errorsEncountered is 1.
C14_Witness ==
    /\ NothingInFlight(crawls, submits)
    /\ FailedBatches = 1
    /\ PagesWithStatus(discoveredPages, "error") = 2
    /\ LinksWithStatus(discoveredPages, "error") = 1
    /\ stats.errorsEncountered = 1

----------------------------------------------------------------------------
(* Properties of a selection that names nothing.                           *)

\* No page of `pages` has its url in S and no internal link has its href in S.
NamesNothing(pages, S) ==
    \A k \in DOMAIN pages :
       /\ pages[k].url \notin S
       /\ Has(pages[k], "internalLinks") =>
             \A n \in DOMAIN pages[k].internalLinks : pages[k].internalLinks[n].href \notin S

CrawlingCompleteToast ==
    Toast("Crawling Complete", "All pages have been crawled and processed", "default")

\* The step changes no status that a page or a link of the model has.
StatusesKept(S) == SamePagesAndLinks /\ OtherPagesKept(S) /\ OtherLinksKeptOrDefaulted(S)

\* C15: an invocation of handleCrawlSelected whose selection names no page
\* and no link of the model changes no status that a page or link has when it
\* starts, and sends its request with zero pages; and when that request has
\* been answered without error, the invocation changes no status and ends as
\* 'nothing selected', not as a crawl success: it sets neither markdown nor
\* stats and makes no 'Crawling Complete' toast.
C15_NothingSelectedIsItsOwnOutcome ==
    [][ /\ \A i \in DOMAIN crawls' :
              (CrawlStarts(i) /\ NamesNothing(discoveredPages, crawls'[i].selectedUrls)) =>
                 /\ StatusesKept(crawls'[i].selectedUrls)
                 /\ crawls'[i].pc = "awaitFetch"
                 /\ crawls'[i].selectedPages = <<>>
        /\ \A i \in DOMAIN crawls :
              (CrawlEnds(i) /\ crawls[i].pc = "awaitSave"
                  /\ crawls[i].selectedPages = <<>>
                  /\ NamesNothing(discoveredPages, crawls[i].selectedUrls)) =>
                 /\ StatusesKept(crawls[i].selectedUrls)
                 /\ crawls'[i].outcome \notin {"saved", "saveFailed"}
                 /\ ~InSeq(CrawlingCompleteToast, crawls'[i].toasts)
                 /\ UNCHANGED <<stats, markdown>>
      ]_vars

----------------------------------------------------------------------------
(* Properties of the notifications.                                        *)

\* One of `toasts` has the destructive variant.
HasErrorToast(toasts) == \E n \in DOMAIN toasts : toasts[n].variant = "destructive"

\* C16: every invocation that has ended on an error path has made a toast by
\* then: handleSubmit rejected for its URL, answered non-2xx, or failed by a
\* transport or parse exception; handleCrawlSelected with a failed batch
\* (non-2xx, error field, exception) or a failed save.
C16_EveryErrorPathNotifies ==
    /\ \A j \in DOMAIN submits :
          /\ submits[j].outcome = "invalid" =>
                (submits[j].pc = "done" /\ InSeq(InvalidUrlToast, submits[j].toasts))
          /\ submits[j].outcome \in SubmitFailures =>
                (submits[j].pc = "done" /\ HasErrorToast(submits[j].toasts))
    /\ \A i \in DOMAIN crawls :
          /\ crawls[i].outcome \in FailureOutcomes =>
                (crawls[i].pc = "done" /\ HasErrorToast(crawls[i].toasts))
          /\ crawls[i].outcome = "saveFailed" =>
                (crawls[i].pc = "done" /\ InSeq(SaveFailureToast, crawls[i].toasts))
          /\ crawls[i].pc = "done" => crawls[i].outcome \in CrawlOutcomes
    /\ \A j \in DOMAIN submits :
          submits[j].pc = "done" =>
             submits[j].outcome \in SubmitFailures \cup {"invalid", "discovered"}

\* A discovery has failed by an exception, a crawl batch has failed and a
\* save has failed, each with its toast.
C16_Witness ==
    /\ \E j \in DOMAIN submits :
          /\ submits[j].outcome \in {"transport", "malformed"}
          /\ submits[j].toasts = <<Toast("Error", FetchFailed.message, "destructive")>>
    /\ \E i, k \in DOMAIN crawls :
          /\ crawls[i].outcome \in FailureOutcomes /\ Len(crawls[i].toasts) = 1
          /\ crawls[k].outcome = "saveFailed" /\ Len(crawls[k].toasts) = 2

----------------------------------------------------------------------------
(* Properties of overlapping invocations of handleCrawlSelected.           *)

\* The step leaves every page that S names with the status it has, and every
\* link that S names and that has a status with that status.
SelectionKept(S) ==
    /\ SamePagesAndLinks
    /\ \A k \in DOMAIN discoveredPages :
          /\ discoveredPages[k].url \in S =>
                discoveredPages'[k].status = discoveredPages[k].status
          /\ Has(discoveredPages[k], "internalLinks") =>
                \A n \in DOMAIN discoveredPages[k].internalLinks :
                   LET before == discoveredPages[k].internalLinks[n]
                   IN  (before.href \in S /\ Has(before, "status")) =>
                          discoveredPages'[k].internalLinks[n].status = before.status

\* C17: while an invocation i of handleCrawlSelected is in flight, no step
\* of another invocation k whose selection is disjoint from that of i (its
\* pending mark, its 'crawled' mark, its 'error' mark, in any interleaving)
\* changes the status of a page or link that i selected, or of a page that
\* neither selected; and the step that ends i gives every page and link that
\* i selected the status of i's own outcome: 'crawled' when it succeeded and
\* saved, 'error' when its batch failed, and the status it had when the save
\* failed.
C17_DisjointCrawlsDoNotInterfere ==
    [][ /\ \A i \in DOMAIN crawls, k \in DOMAIN crawls' :
              (/\ i # k
               /\ crawls[i].pc # "done"
               /\ crawls[i].selectedUrls \cap crawls'[k].selectedUrls = {}
               /\ CrawlStarts(k) \/ CrawlEnds(k)) =>
                 /\ SelectionKept(crawls[i].selectedUrls)
                 /\ OtherPagesKept(crawls[i].selectedUrls \cup crawls'[k].selectedUrls)
        /\ \A i \in DOMAIN crawls :
              CrawlEnds(i) =>
                 CASE crawls'[i].outcome = "saved" ->
                         AllSelectedAre(discoveredPages', crawls[i].selectedUrls, "crawled")
                   [] crawls'[i].outcome \in FailureOutcomes ->
                         AllSelectedAre(discoveredPages', crawls[i].selectedUrls, "error")
                   [] OTHER -> discoveredPages' = discoveredPages
      ]_vars

\* Two invocations with disjoint selections overlap: the second one called has
\* ended and its page is 'crawled', the first is still awaiting its request
\* and its page is 'pending'.
C17_Witness ==
    /\ Len(crawls) = 2
    /\ crawls[1].selectedUrls = {"a"} /\ crawls[1].pc = "awaitFetch"
    /\ crawls[2].selectedUrls = {"b"} /\ crawls[2].pc = "done" /\ crawls[2].outcome = "saved"
    /\ \E k, m \in DOMAIN discoveredPages :
          /\ discoveredPages[k].url = "a" /\ discoveredPages[k].status = "pending"
          /\ discoveredPages[m].url = "b" /\ discoveredPages[m].status = "crawled"

\* An invocation of handleCrawlSelected has started and not ended.
CrawlInFlight == \E i \in DOMAIN crawls : crawls[i].pc # "done"

\* C18: isCrawling is true in every state in which an invocation of
\* handleCrawlSelected has started and not yet ended, several of them
\* overlapping and ending at different moments included.
C18_BusyWhileAnyCrawlInFlight ==
    CrawlInFlight => isCrawling

----------------------------------------------------------------------------
(* Properties of a crawl that overlaps a discovery run.                    *)

\* The urls of the pages in the payload of invocation i.
PayloadUrls(i) == { crawls[i].selectedPages[n].url : n \in DOMAIN crawls[i].selectedPages }

\* C19: a page of the model has status 'crawled' only if a page of that url
\* was in the payload of a crawl request that succeeded; and the step that
\* ends an invocation, with its 'crawled' or its 'error' mark, changes the
\* status of no page that was not in the payload of its request, so that the
\* pages a discovery run installed while the crawl was in flight keep the
\* statuses they were installed with.
C19_OnlyPayloadPagesAreReconciled ==
    /\ [](\A k \in DOMAIN discoveredPages :
             discoveredPages[k].status = "crawled" =>
                \E i \in DOMAIN crawls :
                   /\ crawls[i].outcome = "saved"
                   /\ discoveredPages[k].url \in PayloadUrls(i))
    /\ [][ \A i \in DOMAIN crawls :
              CrawlEnds(i) =>
                 /\ Len(discoveredPages') = Len(discoveredPages)
                 /\ \A k \in DOMAIN discoveredPages :
                       discoveredPages[k].url \notin PayloadUrls(i) =>
                          discoveredPages'[k].status = discoveredPages[k].status
         ]_vars

\* No page of `pages` that S names has status 'pending'.
NoneLeftPending(pages, S) ==
    \A k \in DOMAIN pages : pages[k].url \in S => pages[k].status \in {"crawled", "error"}

\* C20: every page that an invocation of handleCrawlSelected set to 'pending'
\* leaves 'pending': when the invocation ends, its request and its save
\* having settled, every page of the model whose url is in selectedUrls has
\* status 'crawled' or 'error', and in no state is a page 'pending' while no
\* crawl is in flight.
C20_PendingPagesAreSettled ==
    /\ [][ \A i \in DOMAIN crawls :
              CrawlEnds(i) => NoneLeftPending(discoveredPages', crawls[i].selectedUrls)
         ]_vars
    /\ [](~CrawlInFlight => PagesWithStatus(discoveredPages, "pending") = 0)
====
